---------------------------- MODULE Spec2Model ----------------------------
(***************************************************************************)
(* Model of main.py: a Telegram bot that scrapes a listing page every five *)
(* minutes, diffs the active ("Vigente") publication ids against the       *)
(* previously announced set and fans alerts out to the subscribers, while  *)
(* command handlers (/vigentes, /subscribe, /unsubscribe, inline buttons)  *)
(* run on the same asyncio event loop.  Coroutines interleave only at      *)
(* their await points, so every action below is the code between two       *)
(* awaits of one coroutine.                                                *)
(***************************************************************************)
EXTENDS Integers, Sequences, FiniteSets, TLC

(***************************************************************************)
(* Bounds of the model.                                                    *)
(***************************************************************************)
MaxRows == 2

\* Rows of a page when every kind of update is handled beside the job.
MaxRowsWhole == 1

\* Whole days between datetime.now() and the expiry of a publication.
MaxDays == 2

\* Telegram user ids that talk to the bot.
Users == {1, 2}

\* Publication ids that the listing page shows (text of column 0).
Ids == {"101", "102"}

\* An id that the page never lists (a stale button of an old message).
StaleId == "999"

(***************************************************************************)
(* Text of the page.  A table cell is its text and the href of the anchor  *)
(* inside it ("" when there is no anchor).                                 *)
(***************************************************************************)
NoDisponible == "No disponible"

url == "https://sistemas.undc.edu.pe/bienesyservicios/"

\* str.strip() on the cell texts that the pages of the model contain.
Strip(s) ==
    CASE s = " 102 " -> "102"
      [] OTHER -> s

\* The characters of the status texts, for the substring test of filter_vigente.
Chars(s) ==
    CASE s = "Vigente" -> <<"V", "i", "g", "e", "n", "t", "e">>
      [] s = "Vencido" -> <<"V", "e", "n", "c", "i", "d", "o">>
      [] s = "No Vigente" -> <<"N", "o", " ", "V", "i", "g", "e", "n", "t", "e">>
      [] s = "vigente" -> <<"v", "i", "g", "e", "n", "t", "e">>
      [] OTHER -> <<>>

\* Python's `needle in hay` on strings.
Contains(hay, needle) ==
    LET h == Chars(hay)
        n == Chars(needle)
    IN  \E i \in 0..(Len(h) - Len(n)) : SubSeq(h, i + 1, i + Len(n)) = n

\* str.startswith('http') and urljoin(url, href) on the hrefs of the model.
StartsWithHttp(href) == href \in {"https://drive.google.com/file/d/XYZ/view"}

urljoin(base, href) ==
    CASE href = "docs/a.pdf" -> "https://sistemas.undc.edu.pe/bienesyservicios/docs/a.pdf"
      [] OTHER -> href

Cell(t) == [text |-> t, href |-> ""]

LinkCell(h) == [text |-> "PDF", href |-> h]

FullRow(idt, st, h, pub, exp) ==
    <<Cell(idt), Cell("desc"), LinkCell(h), Cell(pub), Cell(exp), Cell(st)>>

\* A row with five cells only (its status cell is missing).
ShortRow(idt) ==
    <<Cell(idt), Cell("desc"), LinkCell(""), Cell("2024-03-01 08:00:00"),
      Cell("2024-03-15 17:00:00")>>

\* A row with a seventh cell after the status.
LongRow(idt, st) ==
    <<Cell(idt), Cell("desc"), LinkCell(""), Cell("2024-03-01 08:00:00"),
      Cell("2024-03-15 17:00:00"), Cell(st), Cell("extra")>>

\* The rows of publication 101 (a relative PDF link, ISO dates) and of
\* publication 102 (padded id, no link, day-first dates), in each status.
StatusTexts == {"Vigente", "Vencido"}

Row101(st) == FullRow("101", st, "docs/a.pdf", "2024-03-01 08:00:00", "2024-03-15 17:00:00")

Row102(st) == FullRow(" 102 ", st, "", "01/03/2024 08:00", "15/03/2024 17:00")

\* The rows that the pages of the running system are made of.
PageRows == {Row101(s) : s \in StatusTexts} \cup {Row102(s) : s \in StatusTexts}
                \cup {ShortRow("101")}

\* The rows that the extractor and the classifier are applied to on their own:
\* more statuses, an absolute link, short and long rows.
AllStatusTexts == {"Vigente", "Vencido", "No Vigente", "vigente", ""}

AllRows ==
    {Row101(s) : s \in AllStatusTexts} \cup {Row102(s) : s \in AllStatusTexts}
        \cup {FullRow("101", "Vigente", "https://drive.google.com/file/d/XYZ/view",
                       "2024-03-01 08:00:00", "")}
        \cup {ShortRow("101"), ShortRow(" 102 "), <<Cell("No data")>>, <<>>}
        \cup {LongRow("101", "Vigente")}

SeqsUpTo(S, n) == UNION {[1..k -> S] : k \in 0..n}

\* The <tr> sequences of the well-formed pages.
Tbodies == SeqsUpTo(PageRows, MaxRows)

\* What session.get(url) / response.text() can produce.
Failures ==
    {[kind |-> "error", rows |-> <<>>],
     [kind |-> "no_table", rows |-> <<>>],
     [kind |-> "no_tbody", rows |-> <<>>]}

Page(r) == [kind |-> "page", rows |-> r]

Responses == Failures \cup {Page(r) : r \in Tbodies}

\* The same with the shorter pages.
ShortResponses == Failures \cup {Page(r) : r \in SeqsUpTo(PageRows, MaxRowsWhole)}

(***************************************************************************)
(* scrape_page, the pure part: rows -> data, rows -> data_cache.           *)
(***************************************************************************)
\* Python's zero-based row[k].
Col(row, k) == row[k + 1]

\* Lines 89-95: the link of the anchor in column 2, made absolute.
pdf_link(cols) ==
    LET href == Col(cols, 2).href
    IN  IF href = "" THEN NoDisponible
        ELSE IF StartsWithHttp(href) THEN href
        ELSE urljoin(url, href)

\* Lines 86 and 98: the stripped cell texts with the link appended.
cols_text(cols) ==
    [k \in 1..Len(cols) |-> Strip(cols[k].text)] \o <<pdf_link(cols)>>

\* Line 83: rows with fewer than six cells are skipped.
MinCols == 6

\* `<=` in place of `<`: rows of exactly six cells are skipped too.
EnoughColsStrict(cols) == ~(Len(cols) <= MinCols)

EnoughCols(cols) == ~(Len(cols) < MinCols)

\* Lines 80-99, 112: the list `data` that scrape_page returns.
RECURSIVE ExtractRows(_)
ExtractRows(rows) ==
    IF rows = <<>> THEN <<>>
    ELSE LET cols == Head(rows)
         IN  IF EnoughCols(cols)
             THEN <<cols_text(cols)>> \o ExtractRows(Tail(rows))
             ELSE ExtractRows(Tail(rows))

\* Lines 103-110: the value stored under pub_id; pdf_link is the last element
\* of cols_text.
CacheEntry(ct) ==
    [row |-> ct,
     pdf_url |-> ct[Len(ct)],
     description |-> Col(ct, 1),
     published_date |-> Col(ct, 3),
     expires_date |-> Col(ct, 4),
     status |-> Col(ct, 5)]

\* data_cache[pub_id] = value
DictSet(d, k, v) == [x \in (DOMAIN d) \cup {k} |-> IF x = k THEN v ELSE d[x]]

\* Lines 101-110 over all rows: the assignments go to whatever dict the
\* global data_cache names when the loop runs.
RECURSIVE StoreRows(_, _)
StoreRows(cache, data) ==
    IF data = <<>> THEN cache
    ELSE StoreRows(DictSet(cache, Col(Head(data), 0), CacheEntry(Head(data))), Tail(data))

EmptyDict == [x \in {} |-> 0]

\* Line 56: data_cache = {}
ResetCache == EmptyDict

\* data_cache[pub_id] in place of get: KeyError for a missing key.
DictIndex(d, k) == [hit |-> k \in DOMAIN d, raised |-> k \notin DOMAIN d]

\* data_cache.get(pub_id): whether a value is there; get never raises.
DictGet(d, k) == [hit |-> k \in DOMAIN d, raised |-> FALSE]

\* subscribers.add(user_id)
SetAdd(S, x) == S \cup {x}

\* subscribers.remove(user_id) in place of discard: KeyError for a non-member.
SetRemove(S, x) == [set |-> S \ {x}, raised |-> x \notin S]

\* subscribers.discard(user_id): never raises.
SetDiscard(S, x) == [set |-> S \ {x}, raised |-> FALSE]

\* datetime.strptime(text, '%Y-%m-%d %H:%M:%S') succeeds on the date texts of the model.
StrptimeOk(text) == text \in {"2024-03-01 08:00:00", "2024-03-15 17:00:00"}

\* Lines 102-103: the keys that the rows of one page are stored under.
PageKeys(data) == {Col(data[k], 0) : k \in 1..Len(data)}

\* What scrape_page logs when it returns [] (lines 62, 70, 75).
FailureKinds == {f.kind : f \in Failures}

\* Lines 57-112 after the reset: (returned data, new data_cache) for a response.
ScrapeResult(cache, resp) ==
    IF resp.kind = "page"
    THEN LET data == ExtractRows(resp.rows)
         IN  [data |-> data, cache |-> StoreRows(cache, data), log |-> "ok"]
    ELSE [data |-> <<>>, cache |-> cache, log |-> resp.kind]

(***************************************************************************)
(* filter_vigente and the diff of check_for_new_publications.              *)
(***************************************************************************)
ActiveToken == "Vigente"

\* `==` in place of `in`.
IsVigenteExact(row) == Col(row, 5) = ActiveToken

\* Line 116: "Vigente" in row[5]
IsVigente(row) == Contains(Col(row, 5), ActiveToken)

filter_vigente(data) == SelectSeq(data, IsVigente)

\* Line 335
CurrentPublications(vigente) == {Col(vigente[k], 0) : k \in 1..Len(vigente)}

\* Line 338
NewPublications(current, previous) == current \ previous

\* previous_publications |= current_publications in place of the assignment.
NextPreviousUnion(current, previous) ==
    IF NewPublications(current, previous) # {} THEN previous \cup current ELSE previous

\* The assignment moved out of the `if`.
NextPreviousAlways(current, previous) == current

\* The assignment without `global previous_publications`.
NextPreviousKeep(current, previous) == previous

\* The assignment also made when the run found no active id at all.
NextPreviousTrack(current, previous) ==
    IF NewPublications(current, previous) # {} \/ current = {} THEN current ELSE previous

\* Lines 340-341
NextPrevious(current, previous) ==
    IF NewPublications(current, previous) # {} THEN current ELSE previous

(***************************************************************************)
(* State.                                                                  *)
(***************************************************************************)
VARIABLES
    subscribers,            \* line 49
    previous_publications,  \* line 50
    data_cache,             \* line 51
    job_pc,                 \* where the scheduled job is: idle, fetch, send1, send2
    job,                    \* locals of check_for_new_publications
    iter,                   \* the set iterator of `for user_id in subscribers`
    attempted,              \* (pub_id, user_id) whose first send_message was called
    failed,                 \* (pub_id, user_id) whose try block raised
    outcome,                \* how the latest finished run of the job ended
    handler,                \* the update handler in progress (one update at a time)
    fn,                     \* input and results of the functions applied on their own
    start_emptied,          \* the reset at the start of the run in progress dropped entries
    subs_changed,           \* subscribers changed while the job was running
    last_current,           \* {current_publications of the latest run past the diff}
    last_new,               \* new_publications of the latest run past the diff
    same_as_prior,          \* this run found the current_publications of the run before
    seen_active,            \* ids active in a run since the last run with new ids
    gone_ids,               \* ids of seen_active that a later run did not list
    reader,                 \* the button in progress: "had" its key when the run reset
                            \* data_cache, "missed" it in the lookup during the fetch
    steady,                 \* subscribers since the start of the run in progress
    fetched,                \* {keys of the page of the latest successful scrape_page}
    last_ok,                \* {current_publications of the latest run that got a page}
    recovered,              \* this run got a page with the ids of last_ok after a failed run
    relisted                \* how the run before ended, when this run lists an id that
                            \* the run before found new; "no" otherwise

vars ==
    <<subscribers, previous_publications, data_cache, job_pc, job, iter, attempted,
      failed, outcome, handler, fn, start_emptied, subs_changed, last_current, last_new,
      same_as_prior, seen_active, gone_ids, reader, steady, fetched, last_ok, recovered,
      relisted>>

shared == <<subscribers, previous_publications, data_cache>>

jobvars == <<job_pc, job, iter, attempted, failed, outcome>>

history == <<start_emptied, last_current, last_new, same_as_prior, seen_active, gone_ids>>

observed == <<reader, steady, fetched, last_ok, recovered, relisted>>

NoJob == [todo |-> {}, pub_id |-> "", user_id |-> 0]

NoIter == [size |-> 0, seen |-> {}, dirty |-> FALSE]

NoHandler ==
    [pc |-> "idle", action |-> "", id |-> "", user |-> 0, member |-> FALSE,
     out |-> "", doc |-> FALSE]

NoFn == [pc |-> "off", rows |-> <<>>, data |-> <<>>, vigente |-> <<>>]

InitSystem ==
    /\ subscribers = {}
    /\ previous_publications = {}
    /\ data_cache = EmptyDict
    /\ job_pc = "idle"
    /\ job = NoJob
    /\ iter = NoIter
    /\ attempted = {}
    /\ failed = {}
    /\ outcome = "none"
    /\ handler = NoHandler
    /\ start_emptied = FALSE
    /\ subs_changed = FALSE
    /\ last_current = {}
    /\ last_new = {}
    /\ same_as_prior = FALSE
    /\ seen_active = {}
    /\ gone_ids = {}
    /\ reader = "none"
    /\ steady = {}
    /\ fetched = {}
    /\ last_ok = {}
    /\ recovered = FALSE
    /\ relisted = "no"

Init == InitSystem /\ fn = NoFn

(***************************************************************************)
(* The scheduled job.  APScheduler runs check_for_new_publications once at *)
(* start and then every five minutes, one instance at a time, and logs an  *)
(* exception of a run without unscheduling the job.                        *)
(***************************************************************************)
\* Lines 395-402, 331, 55-59: a run is due and none is in progress; it resets
\* the cache and waits for the page.
JobStart ==
    /\ job_pc = "idle"
    /\ job_pc' = "fetch"
    /\ data_cache' = ResetCache
    /\ job' = NoJob
    /\ iter' = NoIter
    /\ attempted' = {}
    /\ failed' = {}
    /\ UNCHANGED outcome
    /\ start_emptied' = (data_cache # ResetCache)
    /\ subs_changed' = FALSE
    /\ same_as_prior' = FALSE
    /\ reader' = IF handler.pc = "b_answer" /\ handler.id \in DOMAIN data_cache
                  THEN "had"
                  ELSE "none"
    /\ steady' = subscribers
    /\ fetched' = {}
    /\ recovered' = FALSE
    /\ relisted' = "no"
    /\ UNCHANGED <<subscribers, previous_publications, handler, fn, last_current,
                   last_new, seen_active, gone_ids, last_ok>>

\* A scheduler that drops a job whose run raised.
JobEndsUnscheduled(how) ==
    /\ job_pc' = IF how = "exception" THEN "stopped" ELSE "idle"
    /\ outcome' = how
    /\ job' = NoJob
    /\ iter' = NoIter
    /\ attempted' = {}

\* The coroutine returns (how = "ok" or what scrape_page logged) or raises,
\* and its locals are gone.
JobEnds(how) ==
    /\ job_pc' = "idle"
    /\ outcome' = how
    /\ job' = NoJob
    /\ iter' = NoIter
    /\ attempted' = {}

\* Lines 343-348: `for user_id in subscribers` starts for pub p and reaches the
\* first await.  pub_details is always found: p is the id of a row of vigente_data.
StartUsers(p, u, j) ==
    /\ job_pc' = "send1"
    /\ job' = [j EXCEPT !.pub_id = p, !.user_id = u]
    /\ iter' = [size |-> Cardinality(subscribers), seen |-> {u}, dirty |-> FALSE]
    /\ attempted' = attempted \cup {<<p, u>>}
    /\ UNCHANGED outcome

\* Line 342: the next pub_id of `for pub_id in new_publications`, or the end.
\* With no subscriber every remaining pub_id passes without an await.
NextPub(j) ==
    IF j.todo = {} \/ subscribers = {}
    THEN JobEnds("ok")
    ELSE \E p \in j.todo, u \in subscribers :
            StartUsers(p, u, [j EXCEPT !.todo = j.todo \ {p}])

\* What the sequence of runs has shown so far.
TrackActive(current, new) ==
    /\ last_current' = {current}
    /\ last_new' = new
    /\ same_as_prior' = (current \in last_current)
    /\ seen_active' = IF new # {} THEN current ELSE seen_active \cup current
    /\ gone_ids' = IF new # {} THEN {} ELSE gone_ids \cup (seen_active \ current)

\* Lines 331-348: the response arrives; scrape, filter, diff, first send.
FetchDone(resp) ==
    /\ job_pc = "fetch"
    /\ \E r \in {ScrapeResult(data_cache, resp)} :
       \E cur \in {CurrentPublications(filter_vigente(r.data))} :
       \E new \in {NewPublications(cur, previous_publications)} :
       LET j == [todo |-> new, pub_id |-> "", user_id |-> 0]
       IN  /\ data_cache' = r.cache
           /\ previous_publications' = NextPrevious(cur, previous_publications)
           /\ TrackActive(cur, new)
           /\ IF new = {}
              THEN JobEnds(r.log)
              ELSE NextPub(j)
           /\ fetched' = IF resp.kind = "page" THEN {PageKeys(r.data)} ELSE fetched
           /\ last_ok' = IF resp.kind = "page" THEN {cur} ELSE last_ok
           /\ recovered' = (resp.kind = "page" /\ outcome \in FailureKinds /\ cur \in last_ok)
           /\ relisted' = IF last_new \cap cur # {} THEN outcome ELSE "no"
    /\ start_emptied' = FALSE
    /\ reader' = "none"
    /\ steady' = IF job_pc' = "idle" THEN {} ELSE steady
    /\ failed' = {}
    /\ UNCHANGED <<subscribers, subs_changed, handler, fn>>

\* Line 346: next(iterator).  A set whose size changed raises RuntimeError
\* outside the try; a set changed at equal size may yield or skip anything.
NextUser ==
    IF Cardinality(subscribers) # iter.size
    THEN JobEnds("exception")
    ELSE LET rest == subscribers \ iter.seen
         IN  \/ /\ rest = {} \/ iter.dirty
                /\ NextPub(job)
             \/ \E u \in rest :
                   /\ job' = [job EXCEPT !.user_id = u]
                   /\ iter' = [iter EXCEPT !.seen = iter.seen \cup {u}]
                   /\ attempted' = attempted \cup {<<job.pub_id, u>>}
                   /\ job_pc' = "send1"
                   /\ UNCHANGED outcome

\* No try/except around the two send_message calls.
OnSendErrorAbort ==
    /\ JobEnds("exception")
    /\ failed' = {}

\* Lines 359-360: the except clause logs and the loop goes on.
OnSendError ==
    /\ NextUser
    /\ failed' = IF job_pc' = "idle" THEN {} ELSE failed \cup {<<job.pub_id, job.user_id>>}

\* Lines 348-352: the first send_message returns or raises.
Send1Done(ok) ==
    /\ job_pc = "send1"
    /\ IF ok
       THEN /\ job_pc' = "send2"
            /\ UNCHANGED <<job, iter, attempted, failed, outcome>>
       ELSE OnSendError
    /\ steady' = IF job_pc' = "idle" THEN {} ELSE steady
    /\ UNCHANGED <<shared, handler, fn, history, subs_changed, reader, fetched, last_ok,
                   recovered, relisted>>

\* Lines 353-358: the second send_message returns or raises.
Send2Done(ok) ==
    /\ job_pc = "send2"
    /\ IF ok
       THEN /\ NextUser
            /\ failed' = IF job_pc' = "idle" THEN {} ELSE failed
       ELSE OnSendError
    /\ steady' = IF job_pc' = "idle" THEN {} ELSE steady
    /\ UNCHANGED <<shared, handler, fn, history, subs_changed, reader, fetched, last_ok,
                   recovered, relisted>>

(***************************************************************************)
(* Update handlers.  The application processes one update at a time, so a  *)
(* handler starts only when none is in progress; the job runs beside it.   *)
(***************************************************************************)
JobRunning == job_pc # "idle"

IterLive == job_pc \in {"send1", "send2"}

\* A change of the set is seen by a live iterator of it.
Touch(changed) ==
    /\ iter' = IF changed /\ IterLive THEN [iter EXCEPT !.dirty = TRUE] ELSE iter
    /\ subs_changed' = (subs_changed \/ (changed /\ JobRunning))

\* The handler's last await (its reply or document is on its way), or the
\* exception it raised on its way to error_handler (lines 363-365).
Finish(h, out, doc) == handler' = [h EXCEPT !.pc = "done", !.out = out, !.doc = doc]

\* update.effective_user.id of a /subscribe or /unsubscribe, and whether that
\* user is a subscriber when the handler runs.
RegistryUpdate(a, u) ==
    [NoHandler EXCEPT !.action = a, !.user = u, !.member = (u \in subscribers)]

\* A /subscribe that also forgets what was announced, so that the new
\* subscriber is told about every active publication.
subscribeResets(u) ==
    /\ handler.pc = "idle"
    /\ subscribers' = SetAdd(subscribers, u)
    /\ previous_publications' = {}
    /\ Touch(subscribers' # subscribers)
    /\ Finish(RegistryUpdate("subscribe", u), "subscribed", FALSE)
    /\ UNCHANGED <<data_cache, job_pc, job, attempted, failed, outcome, fn, history,
                   observed>>

\* Lines 199-203
subscribe(u) ==
    /\ handler.pc = "idle"
    /\ subscribers' = SetAdd(subscribers, u)
    /\ Touch(subscribers' # subscribers)
    /\ Finish(RegistryUpdate("subscribe", u), "subscribed", FALSE)
    /\ UNCHANGED <<previous_publications, data_cache, job_pc, job, attempted, failed,
                   outcome, fn, history, observed>>

\* Lines 205-209
unsubscribe(u) ==
    /\ handler.pc = "idle"
    /\ LET d == SetDiscard(subscribers, u)
           h == RegistryUpdate("unsubscribe", u)
       IN  IF d.raised
           THEN /\ Finish(h, "exception", FALSE)
                /\ UNCHANGED <<subscribers, iter, subs_changed>>
           ELSE /\ subscribers' = d.set
                /\ Touch(subscribers' # subscribers)
                /\ Finish(h, "unsubscribed", FALSE)
    /\ steady' = steady \cap subscribers'
    /\ UNCHANGED <<previous_publications, data_cache, job_pc, job, attempted, failed,
                   outcome, fn, history, reader, fetched, last_ok, recovered, relisted>>

\* Lines 187-189, 55-59: /vigentes resets the cache and waits for the page.
VigentesStart ==
    /\ handler.pc = "idle"
    /\ data_cache' = ResetCache
    /\ handler' = [NoHandler EXCEPT !.pc = "v_fetch", !.action = "vigentes"]
    /\ fetched' = {}
    /\ UNCHANGED <<subscribers, previous_publications, jobvars, fn, history, subs_changed,
                   reader, steady, last_ok, recovered, relisted>>

\* Lines 189-197: the response arrives; scrape, filter, reply.
VigentesFetched(resp) ==
    /\ handler.pc = "v_fetch"
    /\ \E r \in {ScrapeResult(data_cache, resp)} :
       LET vigente_data == filter_vigente(r.data)
       IN  /\ data_cache' = r.cache
           /\ Finish(handler, IF vigente_data = <<>> THEN "no_vigentes" ELSE "vigentes", FALSE)
           /\ fetched' = IF resp.kind = "page" THEN {PageKeys(r.data)} ELSE fetched
    /\ UNCHANGED <<subscribers, previous_publications, jobvars, fn, history, subs_changed,
                   reader, steady, last_ok, recovered, relisted>>

ButtonActions == {"download", "calendar", "sharepdf"}

ButtonIds == Ids \cup {StaleId}

\* Lines 211-218: a button of some earlier message is pressed; await query.answer().
ButtonPressed(a, id) ==
    /\ handler.pc = "idle"
    /\ handler' = [NoHandler EXCEPT !.pc = "b_answer", !.action = a, !.id = id]
    /\ UNCHANGED <<shared, jobvars, fn, history, subs_changed, observed>>

\* Lines 219-307: the lookup in data_cache and what follows it up to the next await.
ButtonLookup ==
    /\ handler.pc = "b_answer"
    /\ LET g == DictGet(data_cache, handler.id)
           pub_data == data_cache[handler.id]
       IN  IF g.raised THEN Finish(handler, "exception", FALSE)
           ELSE CASE handler.action = "download" ->
                       IF g.hit /\ pub_data.pdf_url # NoDisponible
                       THEN handler' = [handler EXCEPT !.pc = "b_get"]
                       ELSE Finish(handler, "pdf_unavailable", FALSE)
                  [] handler.action = "calendar" ->
                       IF g.hit
                       THEN IF StrptimeOk(pub_data.published_date)
                               /\ StrptimeOk(pub_data.expires_date)
                            THEN Finish(handler, "ics", TRUE)
                            ELSE Finish(handler, "date_error", FALSE)
                       ELSE Finish(handler, "not_found", FALSE)
                  [] handler.action = "sharepdf" ->
                       IF g.hit
                       THEN Finish(handler, "summary_pdf", TRUE)
                       ELSE Finish(handler, "cannot_generate", FALSE)
    /\ reader' = IF reader = "had" /\ ~DictGet(data_cache, handler.id).hit
                  THEN "missed"
                  ELSE "none"
    /\ UNCHANGED <<shared, jobvars, fn, history, subs_changed, steady, fetched, last_ok,
                   recovered, relisted>>

\* Lines 225-239: the GET of the PDF answers 200, another status, or raises.
ButtonGot(res) ==
    /\ handler.pc = "b_get"
    /\ CASE res = "200" -> Finish(handler, "original_pdf", TRUE)
         [] res = "status" -> Finish(handler, "download_failed", FALSE)
         [] res = "raise" -> Finish(handler, "download_error", FALSE)
    /\ UNCHANGED <<shared, jobvars, fn, history, subs_changed, observed>>

\* The handler's last await completes and the next update can be handled.
HandlerDone ==
    /\ handler.pc = "done"
    /\ handler' = NoHandler
    /\ reader' = "none"
    /\ UNCHANGED <<shared, jobvars, fn, history, subs_changed, steady, fetched, last_ok,
                   recovered, relisted>>

(***************************************************************************)
(* scrape_page and filter_vigente applied on their own to one page.        *)
(***************************************************************************)
AllTbodies == SeqsUpTo(AllRows, MaxRows)

InitFn == InitSystem /\ fn \in {[NoFn EXCEPT !.pc = "page", !.rows = r] : r \in AllTbodies}

\* Lines 54-112 on a page with table and tbody.
ApplyScrape ==
    /\ fn.pc = "page"
    /\ LET r == ScrapeResult(ResetCache, Page(fn.rows))
       IN  /\ data_cache' = r.cache
           /\ fn' = [fn EXCEPT !.pc = "data", !.data = r.data]
    /\ UNCHANGED <<subscribers, previous_publications, jobvars, handler, history,
                   subs_changed, observed>>

\* Lines 115-117 on the data that scrape_page returned.
ApplyFilter ==
    /\ fn.pc = "data"
    /\ fn' = [fn EXCEPT !.pc = "vigente", !.vigente = filter_vigente(fn.data)]
    /\ UNCHANGED <<shared, jobvars, handler, history, subs_changed, observed>>

FnNext == ApplyScrape \/ ApplyFilter

(***************************************************************************)
(* format_single_publication, lines 120-133: the remaining time.  A        *)
(* datetime is a number of minutes since 2024-03-01 00:00; a timedelta is  *)
(* Python's normalized pair of days and seconds, 0 <= seconds < 86400.     *)
(***************************************************************************)
\* The texts of the expiry column.
ExpiryTexts == {"2024-03-15 17:00:00", "15/03/2024 17:00", "03/04/2024 00:00", ""}

\* dateparser.parse(text, settings={'DATE_ORDER': 'DMY'}): the datetime, or
\* None for a text that is no date.
dateparser_parse(text) ==
    CASE text = "2024-03-15 17:00:00" -> [ok |-> TRUE, at |-> 14 * 1440 + 17 * 60]
      [] text = "15/03/2024 17:00" -> [ok |-> TRUE, at |-> 14 * 1440 + 17 * 60]
      [] text = "03/04/2024 00:00" -> [ok |-> TRUE, at |-> 33 * 1440]
      [] text = "2024-03-01 08:00:00" -> [ok |-> TRUE, at |-> 8 * 60]
      [] text = "01/03/2024 08:00" -> [ok |-> TRUE, at |-> 8 * 60]
      [] OTHER -> [ok |-> FALSE, at |-> 0]

\* timedelta(seconds=s), normalized as Python does (floor division).
timedelta(s) == [days |-> s \div 86400, seconds |-> s % 86400]

\* timedelta.total_seconds()
total_seconds(delta) == delta.days * 86400 + delta.seconds

\* expires_date - datetime.now(), both in whole minutes (line 125).
Minus(expires_date, now) == timedelta((expires_date - now) * 60)

\* The delta used as it is, without lines 126-127.
ClampNone(delta) == delta

\* Lines 126-127
Clamp(delta) == IF total_seconds(delta) < 0 THEN timedelta(0) ELSE delta

divmod(a, b) == <<a \div b, a % b>>

\* available_time = "Desconocido" (line 133)
Desconocido == [known |-> FALSE, days |-> 0, hours |-> 0, minutes |-> 0]

\* Lines 123-133: the numbers that the f-string of line 131 prints.
available_time(row, now) ==
    LET expires_date == dateparser_parse(Col(row, 4))
    IN  IF expires_date.ok
        THEN LET delta == Clamp(Minus(expires_date.at, now))
                 hr == divmod(delta.seconds, 3600)
                 mr == divmod(hr[2], 60)
             IN  [known |-> TRUE, days |-> delta.days, hours |-> hr[1], minutes |-> mr[1]]
        ELSE Desconocido

\* The rows that are formatted: one for each expiry text.
FormatRows ==
    {cols_text(FullRow("101", "Vigente", "", "2024-03-01 08:00:00", e)) : e \in ExpiryTexts}

\* The values of datetime.now(): up to MaxDays days and some hours and minutes
\* before 2024-03-15 17:00, that moment, and some minutes and days after it.
Nows ==
    {14 * 1440 + 17 * 60 - (d * 1440 + h * 60 + m) :
        d \in 0..MaxDays, h \in {0, 3, 23}, m \in {0, 10, 59}}
        \cup {14 * 1440 + 17 * 60 + k : k \in {1, 59, 60, 1439, 1440, 1501}}

InitFormat ==
    /\ InitSystem
    /\ fn \in {[pc |-> "row", row |-> r, now |-> n, available_time |-> Desconocido] :
                r \in FormatRows, n \in Nows}

\* Lines 120-158 on one row: the message is built and returned.
ApplyFormat ==
    /\ fn.pc = "row"
    /\ fn' = [fn EXCEPT !.pc = "message", !.available_time = available_time(fn.row, fn.now)]
    /\ UNCHANGED <<shared, jobvars, handler, history, subs_changed, observed>>

(***************************************************************************)
(* Specifications.  Spec is the whole bot.  SpecJob is the bot when no     *)
(* /vigentes command and no button arrives: the job beside /subscribe and  *)
(* /unsubscribe.  SpecIndex is the bot when nobody subscribes: the job     *)
(* beside /vigentes and the buttons.  SpecWhole is the whole bot on pages  *)
(* of at most MaxRowsWhole rows.  SpecFn applies the extractor and the     *)
(* classifier to every page of AllTbodies.  SpecFormat applies the         *)
(* remaining-time computation of format_single_publication to every row    *)
(* of FormatRows at every moment of Nows.                                  *)
(***************************************************************************)
JobNext ==
    \/ JobStart
    \/ \E resp \in Responses : FetchDone(resp)
    \/ \E ok \in BOOLEAN : Send1Done(ok)
    \/ \E ok \in BOOLEAN : Send2Done(ok)

RegistryNext ==
    \/ \E u \in Users : subscribe(u)
    \/ \E u \in Users : unsubscribe(u)
    \/ HandlerDone

QueryNext ==
    \/ VigentesStart
    \/ \E resp \in Responses : VigentesFetched(resp)
    \/ \E a \in ButtonActions, id \in ButtonIds : ButtonPressed(a, id)
    \/ ButtonLookup
    \/ \E res \in {"200", "status", "raise"} : ButtonGot(res)

IndexNext ==
    \/ JobStart
    \/ \E resp \in Responses : FetchDone(resp)
    \/ QueryNext
    \/ HandlerDone

Next == JobNext \/ RegistryNext \/ QueryNext

\* Every step of the bot, on the shorter pages.
WholeNext ==
    \/ JobStart
    \/ \E resp \in ShortResponses : FetchDone(resp)
    \/ \E ok \in BOOLEAN : Send1Done(ok)
    \/ \E ok \in BOOLEAN : Send2Done(ok)
    \/ RegistryNext
    \/ VigentesStart
    \/ \E resp \in ShortResponses : VigentesFetched(resp)
    \/ \E a \in ButtonActions, id \in ButtonIds : ButtonPressed(a, id)
    \/ ButtonLookup
    \/ \E res \in {"200", "status", "raise"} : ButtonGot(res)

Spec == Init /\ [][Next]_vars

SpecJob == Init /\ [][JobNext \/ RegistryNext]_vars

SpecIndex == Init /\ [][IndexNext]_vars

SpecWhole == Init /\ [][WholeNext]_vars

SpecFn == InitFn /\ [][FnNext]_vars

SpecFormat == InitFormat /\ [][ApplyFormat]_vars

\* The interval trigger keeps firing: a due run starts unless one is in progress.
FairSpecJob == SpecJob /\ WF_vars(JobStart)

(***************************************************************************)
(* Claims.                                                                 *)
(***************************************************************************)
\* The step of a run that computes the diff: the page (or the failure) arrives.
DiffStep == job_pc = "fetch" /\ job_pc' # "fetch"

\* A run is in its fan-out, suspended in a send_message.
InFanOut == job_pc \in {"send1", "send2"}

\* The step that ends a run which has awaited at least one send_message.
FanOutEnds == InFanOut /\ ~InFanOut'

\* C1: in every run, with S the active ids it found and P the value of
\* previous_publications when it started, the new ids are S \ P; when there
\* are new ids previous_publications becomes S, otherwise it stays P; only
\* new ids are announced, and no other step of the bot writes
\* previous_publications, so this is its value when the run ends.
C1_DiffReplacesPrevious ==
    [][/\ DiffStep =>
            \A S \in last_current' :
                LET P == previous_publications
                IN  /\ last_new' = S \ P
                    /\ previous_publications' = IF S \ P # {} THEN S ELSE P
                    /\ \A a \in attempted' : a[1] \in S \ P
       /\ ~DiffStep =>
            /\ previous_publications' = previous_publications
            /\ \A a \in attempted' : a[1] \in last_new']_vars

\* A run found new ids beside ids that were already known, and
\* previous_publications is the whole active set, not the new ids alone.
C1_Witness ==
    /\ job_pc # "fetch"
    /\ last_new # {}
    /\ \E S \in last_current : last_new # S /\ previous_publications = S

\* C2: an id that was active in a run, was missing from a later run and is
\* active again is not among the new ids of the run that sees it again, when
\* no run since the one where it was active had new ids; and that run leaves
\* previous_publications as it was when nothing else is new.
C2_ReappearedNotNew ==
    [][DiffStep =>
          \A S \in last_current' :
              /\ (gone_ids \cap S) \cap last_new' = {}
              /\ (gone_ids \cap S # {} /\ last_new' = {}) =>
                    previous_publications' = previous_publications]_vars

\* The latest run listed an id again that an earlier run had missed.
C2_Witness ==
    /\ job_pc # "fetch"
    /\ \E S \in last_current : gone_ids \cap S # {} /\ gone_ids \cap S \subseteq previous_publications

\* C3: a run that finds the same active ids as the run before it ends
\* without calling send_message for anybody.
C3_RepeatSendsNothing == same_as_prior => (job_pc = "idle" /\ attempted = {})

\* Two runs in a row found the same non-empty active set while somebody was subscribed.
C3_Witness ==
    /\ same_as_prior
    /\ subscribers # {}
    /\ last_current # {{}}

\* The ways a run fails as a whole: the GET raises, the table or its tbody is missing.
CycleFailures == {"error", "no_table", "no_tbody"}

\* The step in which a run fails as a whole: scrape_page returns [] after
\* logging the failure, and the run ends.
FailedStep == DiffStep /\ job_pc' = "idle" /\ outcome' \in CycleFailures

\* C4 (as claimed): a run that fails as a whole leaves data_cache and
\* previous_publications as they were when the run started: neither the
\* step that starts the run nor the step in which the failure arrives has
\* changed them.
C4_FailedCycleKeepsState ==
    [][FailedStep =>
          /\ ~start_emptied
          /\ data_cache' = data_cache
          /\ previous_publications' = previous_publications]_vars

\* C5: when nobody subscribes or unsubscribes during a run, the run ends
\* normally with a send_message called for every new id and every subscriber,
\* whichever of the sends raised; at every moment the calls made are among
\* those pairs.
C5_AllPairsAttempted ==
    [][/\ (FanOutEnds /\ ~subs_changed) =>
            /\ outcome' = "ok"
            /\ attempted = last_new \X subscribers
       /\ ~subs_changed' => attempted' \subseteq (last_new' \X subscribers')]_vars

\* A send raised for one subscriber of the first id, and the other subscriber
\* and the other new id were served all the same.
C5_Witness ==
    /\ InFanOut
    /\ ~subs_changed
    /\ failed # {}
    /\ Cardinality(last_new) = 2
    /\ Cardinality(subscribers) = 2
    /\ attempted = last_new \X subscribers
    /\ \E a \in failed, b \in attempted : a[1] # b[1] /\ a[2] # b[2]

\* A run of the job is over and none is in progress.
JobOver == job_pc \notin {"fetch", "send1", "send2"} /\ outcome # "none"

\* C6: after every run of the job, whether it ended normally, with a failed
\* fetch, a missing table or tbody, or with an exception that escaped
\* check_for_new_publications, a later run is eventually started.
C6_SchedulerKeepsRunning == JobOver ~> (job_pc = "fetch")

\* A run has started after a run that ended with an escaped exception.
C6_Witness == job_pc = "fetch" /\ outcome = "exception"

\* The step in which the handler of /subscribe or /unsubscribe of user u runs.
RegistryStep(a, u) == handler.pc = "idle" /\ handler'.action = a /\ handler'.user = u

OthersKept(u) == \A v \in Users \ {u} : (v \in subscribers') <=> (v \in subscribers)

\* C7: /subscribe of x makes x a subscriber and, when x already was one,
\* leaves the set as it was; /unsubscribe of y makes y a non-subscriber and,
\* when y was none, leaves the set as it was; neither raises and neither
\* changes whether anybody else is a subscriber.
C7_RegistryIdempotent ==
    [][\A u \in Users :
          /\ RegistryStep("subscribe", u) =>
                /\ u \in subscribers'
                /\ u \in subscribers => subscribers' = subscribers
                /\ OthersKept(u)
                /\ handler'.out = "subscribed"
          /\ RegistryStep("unsubscribe", u) =>
                /\ u \notin subscribers'
                /\ u \notin subscribers => subscribers' = subscribers
                /\ OthersKept(u)
                /\ handler'.out = "unsubscribed"]_vars

\* A non-subscriber has sent /unsubscribe while somebody else is subscribed.
C7_Witness ==
    /\ handler.pc = "done"
    /\ handler.action = "unsubscribe"
    /\ ~handler.member
    /\ handler.out = "unsubscribed"
    /\ subscribers # {}

\* The reply of each button when the publication is not in data_cache
\* (lines 241, 276, 307).
MissReply(a) ==
    CASE a = "download" -> "pdf_unavailable"
      [] a = "calendar" -> "not_found"
      [] a = "sharepdf" -> "cannot_generate"

\* The step in which button_callback looks the publication up.
LookupStep == handler.pc = "b_answer" /\ handler'.pc # "b_answer"

\* C8: a button pressed for an id that is not a key of data_cache when the
\* handler looks it up is answered with the button's "not available" text;
\* the handler raises nothing, sends no document and starts no download, and
\* data_cache, previous_publications and subscribers stay as they are.
C8_LookupMiss ==
    [][(LookupStep /\ handler.id \notin DOMAIN data_cache) =>
          /\ handler'.pc = "done"
          /\ handler'.out = MissReply(handler.action)
          /\ ~handler'.doc
          /\ UNCHANGED shared]_vars

\* The calendar button of a publication that the page lists was pressed while
\* the index held another publication only.
C8_Witness ==
    /\ handler.pc = "done"
    /\ handler.action = "calendar"
    /\ handler.out = "not_found"
    /\ handler.id \in Ids
    /\ handler.id \notin DOMAIN data_cache
    /\ data_cache # EmptyDict

\* The k-th smallest element of a set of indices.
Kth(I, k) == CHOOSE i \in I : Cardinality({j \in I : j < i}) = k - 1

\* out is the subsequence of in at the indices I, in order.
PicksInOrder(out, in, I) ==
    /\ Len(out) = Cardinality(I)
    /\ \A k \in 1..Len(out) : out[k] = in[Kth(I, k)]

\* The status texts of AllStatusTexts that contain "Vigente".
WithToken == {"Vigente", "No Vigente"}

\* C9: filter_vigente returns the records whose status contains "Vigente",
\* each once and in the order of its input, and nothing else; applying it
\* changes neither its input nor data_cache, previous_publications or
\* subscribers.
C9_FilterIsPureFilter ==
    [][(fn.pc = "data" /\ fn'.pc = "vigente") =>
          /\ PicksInOrder(fn'.vigente, fn.data,
                          {i \in 1..Len(fn.data) : fn.data[i][6] \in WithToken})
          /\ fn'.data = fn.data
          /\ UNCHANGED shared]_vars

\* The filter dropped the first of two records and kept the second, whose
\* status contains the token without being equal to it.
C9_Witness ==
    /\ fn.pc = "vigente"
    /\ Len(fn.data) = 2
    /\ fn.vigente = <<fn.data[2]>>
    /\ fn.data[2][6] = "No Vigente"

\* The texts of the id cells of AllRows after strip().
IdText(raw) == IF raw = " 102 " THEN "102" ELSE raw

WideRows(rows) == {i \in 1..Len(rows) : Len(rows[i]) >= 6}

IsWide(row) == Len(row) >= 6

\* C10: for a page with table and tbody, scrape_page returns one record for
\* each row of six or more cells, in row order, carrying the row's id, its
\* status and its link; rows of fewer cells give no record and no key of
\* data_cache, and the result is the same as for the page without them.
C10_OneRecordPerWideRow ==
    [][(fn.pc = "page" /\ fn'.pc = "data") =>
          LET rows == fn.rows
              data == fn'.data
              W == WideRows(rows)
          IN  /\ Len(data) = Cardinality(W)
              /\ \A k \in 1..Len(data) :
                    LET row == rows[Kth(W, k)]
                    IN  /\ Len(data[k]) = Len(row) + 1
                        /\ data[k][1] = IdText(row[1].text)
                        /\ data[k][6] = row[6].text
                        /\ (data[k][Len(row) + 1] = NoDisponible) <=> (row[3].href = "")
              /\ DOMAIN data_cache' = {IdText(rows[i][1].text) : i \in W}
              /\ data = ExtractRows(SelectSeq(rows, IsWide))]_vars

\* A page whose first row has five cells and whose second has six gave one
\* record, the second row's, and one key.
C10_Witness ==
    /\ fn.pc = "data"
    /\ Len(fn.rows) = 2
    /\ Len(fn.rows[1]) = 5
    /\ Len(fn.rows[2]) = 6
    /\ Len(fn.data) = 1
    /\ fn.data[1][1] = "102"
    /\ DOMAIN data_cache = {"102"}

\* C11 (as claimed): a button whose publication was in data_cache before a
\* run of the job reset it, and is in data_cache again when that run has
\* stored its page, finds the publication at every moment in between: no
\* lookup made while the run waits for the page misses it.
C11_ReaderSeesWholeSnapshot ==
    [][(DiffStep /\ reader = "missed") => handler.id \notin DOMAIN data_cache']_vars

\* An execution of scrape_page is suspended at its GET.
JobFetching == job_pc = "fetch"

HandlerFetching == handler.pc = "v_fetch"

\* C12 (as claimed): at no time are two executions of scrape_page in
\* progress, whether the job or the /vigentes handler started them.
C12_RebuildsSerialized == ~(JobFetching /\ HandlerFetching)

\* A step of an update handler: /subscribe, /unsubscribe, /vigentes or a button.
HandlerStep == handler' # handler

\* C13 (as claimed): no step of an update handler (/vigentes, a button)
\* changes data_cache; only the steps of the job do.
C13_QueriesLeaveIndex == [][HandlerStep => data_cache' = data_cache]_vars

\* C14 (as claimed): a /subscribe or /unsubscribe handled while a run is
\* suspended in a send_message does not abort the fan-out: the run ends
\* normally, and every user who has been a subscriber since the run started
\* has had a send_message called for every new id of the run.
C14_FanOutSurvivesRegistry ==
    [][FanOutEnds =>
          /\ outcome' = "ok"
          /\ \A u \in steady, n \in last_new : <<n, u>> \in attempted]_vars

\* C15 (as claimed): from the moment a scrape_page has stored its page until
\* the next scrape_page starts, the keys of data_cache are the ids of the rows
\* of that page and nothing else.
C15_IndexIsOnePage == \A K \in fetched : DOMAIN data_cache = K

\* C16: previous_publications is empty at startup; the only step that
\* changes it is the diff of a run of the job that found new ids, which
\* makes it the run's current_publications; no step of /subscribe,
\* /unsubscribe, /vigentes or a button changes it.
C16_PreviousOnlyByDiff ==
    /\ previous_publications = {}
    /\ [][/\ previous_publications' # previous_publications =>
                /\ DiffStep
                /\ last_new' # {}
                /\ previous_publications' \in last_current'
          /\ HandlerStep => previous_publications' = previous_publications]_vars

\* /vigentes has listed an active publication that no run of the job has
\* seen, after a run had announced another one, and previous_publications
\* holds the announced one only.
C16_Witness ==
    /\ handler.pc = "done"
    /\ handler.out = "vigentes"
    /\ job_pc = "idle"
    /\ previous_publications # {}
    /\ \E id \in DOMAIN data_cache :
          /\ IsVigente(data_cache[id].row)
          /\ id \notin previous_publications

\* C17: a run whose GET raises or whose table or tbody is missing has an
\* empty result, ends without a send_message and leaves
\* previous_publications as it was; no step of a run in progress takes it
\* back to the fetch; and a run that gets a page after a failed run, with
\* the active ids of the last run that got a page, finds nothing new and
\* sends nothing.
C17_FailureIsSilent ==
    /\ [][FailedStep =>
             /\ last_current' = {{}}
             /\ last_new' = {}
             /\ attempted' = {}
             /\ previous_publications' = previous_publications]_vars
    /\ [][(job_pc # "idle" /\ job_pc' = "fetch") => UNCHANGED <<jobvars, last_current>>]_vars
    /\ [](recovered => (last_new = {} /\ job_pc = "idle" /\ attempted = {}))

\* After an announced publication and a failed run, a run got the page with
\* the same active publication while somebody was subscribed.
C17_Witness ==
    /\ recovered
    /\ last_current # {{}}
    /\ subscribers # {}
    /\ outcome = "ok"

\* C18: previous_publications holds an id before the first send_message for
\* it is called; a run never finds new what the run before it found new,
\* however that run ended and whoever was subscribed; and no send_message is
\* ever called for an id that was in previous_publications when the run
\* computed its diff.
C18_AnnouncedAtMostOnce ==
    /\ [](\A a \in attempted : a[1] \in previous_publications)
    /\ [][DiffStep =>
             /\ last_new' \cap last_new = {}
             /\ last_new' \cap previous_publications = {}
             /\ \A a \in attempted' : a[1] \in last_new']_vars
    /\ [][~DiffStep => \A a \in attempted' : a[1] \in last_new]_vars

\* The run before found an id new and was aborted by an exception in its
\* fan-out; this run lists the id again, finds nothing new and has ended
\* without a send, although two users are subscribed.
C18_Witness ==
    /\ relisted = "exception"
    /\ last_new = {}
    /\ job_pc = "idle"
    /\ Cardinality(subscribers) = 2

\* The step in which format_single_publication is applied to fn.row.
FormatStep == fn.pc = "row" /\ fn'.pc = "message"

\* max(0, expires_at - now) in minutes.
ClampedMinutes(expires_at, now) == IF expires_at > now THEN expires_at - now ELSE 0

\* C19: for an expiry that dateparser parses and every now, the days, hours
\* and minutes shown are not negative, hours < 24, minutes < 60 and
\* days * 1440 + hours * 60 + minutes is max(0, expiry - now) in minutes, so
\* an expiry that has passed shows 0, 0, 0; for an expiry that does not
\* parse the time shown is "Desconocido" and the message is still built.
C19_RemainingTime ==
    [][FormatStep =>
          LET e == dateparser_parse(fn.row[5])
              t == fn'.available_time
          IN  /\ e.ok =>
                    /\ t.known
                    /\ t.days >= 0
                    /\ t.hours >= 0 /\ t.hours < 24
                    /\ t.minutes >= 0 /\ t.minutes < 60
                    /\ t.days * 1440 + t.hours * 60 + t.minutes = ClampedMinutes(e.at, fn.now)
                    /\ e.at <= fn.now => (t.days = 0 /\ t.hours = 0 /\ t.minutes = 0)
              /\ ~e.ok => t = Desconocido]_vars

\* An expiry written day first, 2 days 3 hours and 10 minutes ahead.
C19_Witness ==
    /\ fn.pc = "message"
    /\ fn.row[5] = "15/03/2024 17:00"
    /\ fn.available_time = [known |-> TRUE, days |-> 2, hours |-> 3, minutes |-> 10]

=============================================================================
